---------------------------- MODULE Spec2Model ----------------------------
(* pkt-rs: the layer dispatcher Packet::parse and the header codecs it    *)
(* drives (Ethernet, Dot1Q, ARP, IPv4, ICMPv4, TCP, UDP), and the codecs   *)
(* and checksum functions that are called on their own (GRE, the IPv4 and  *)
(* ICMPv4 checksums).                                                      *)
(* A byte is a number in 0..255, a slice is a sequence of bytes.           *)
EXTENDS Integers, Sequences, FiniteSets, TLC

\* frame: the bytes given; overflow_checks, little_endian: the build (u8
\* arithmetic panics or wraps, the target's byte order); pc: the position
\* in the caller; headers: the values decoded so far; leftover: the slice
\* not yet consumed; out: what the last as_bytes or checksum call returned.
VARIABLES frame, overflow_checks, little_endian, pc, headers, leftover, out

vars == <<frame, overflow_checks, little_endian, pc, headers, leftover, out>>

---------------------------------------------------------------------------
(* Slices and big-endian numbers                                           *)

Take(bytes, n) == SubSeq(bytes, 1, n)

Drop(bytes, n) == SubSeq(bytes, n + 1, Len(bytes))

Last(s) == s[Len(s)]

RECURSIVE BeUint(_)
BeUint(bytes) ==
    IF bytes = <<>> THEN 0
    ELSE BeUint(Take(bytes, Len(bytes) - 1)) * 256 + bytes[Len(bytes)]

WriteU16(v) == <<v \div 256, v % 256>>

\* A u32 is kept as its two 16-bit halves <<high, low>>: the model checker's
\* integers are 32-bit signed and cannot hold every u32.
BeU32(bytes) == <<BeUint(Take(bytes, 2)), BeUint(Drop(bytes, 2))>>

WriteU32(v) == WriteU16(v[1]) \o WriteU16(v[2])

\* bit i (0 = lowest) of a byte
Bit(v, i) == (v \div (2 ^ i)) % 2

---------------------------------------------------------------------------
(* nom results: Ok((rest, value)), Err(_), or a panic unwinding the call   *)

NomErr == [status |-> "err"]

Panic == [status |-> "panic"]

NomOk(rest, val) == [status |-> "ok", rest |-> rest, val |-> val]

\* no value returned yet
Nothing == [status |-> "none"]

\* a u8 computed by checked or wrapping arithmetic
U8(val) == [status |-> "ok", val |-> val]

\* nom::bytes::complete::take(n) / be_u8 / be_u16 / be_u32: n bytes or Err
NomTake(bytes, n) ==
    IF Len(bytes) < n THEN NomErr
    ELSE NomOk(Drop(bytes, n), Take(bytes, n))

\* do_parse!(bytes, f1: p1 >> f2: p2 >> ...) for parsers of fixed widths:
\* the fields are read left to right, the first short read fails the whole.
RECURSIVE Fits(_, _)
Fits(bytes, widths) ==
    \/ widths = <<>>
    \/ /\ Len(bytes) >= widths[1]
       /\ Fits(Drop(bytes, widths[1]), Drop(widths, 1))

RECURSIVE Fields(_, _)
Fields(bytes, widths) ==
    IF widths = <<>> THEN <<>>
    ELSE <<Take(bytes, widths[1])>>
         \o Fields(Drop(bytes, widths[1]), Drop(widths, 1))

RECURSIVE Width(_)
Width(widths) ==
    IF widths = <<>> THEN 0 ELSE widths[1] + Width(Drop(widths, 1))

DoParse(bytes, widths) ==
    IF Fits(bytes, widths)
    THEN NomOk(Drop(bytes, Width(widths)), Fields(bytes, widths))
    ELSE NomErr

---------------------------------------------------------------------------
(* Ethernet                                                               *)

EthernetValue(f) ==
    [kind |-> "ETHER", destination |-> f[1], source |-> f[2],
     eth_type |-> BeUint(f[3])]

EthernetParsed(r) ==
    IF r.status = "err" THEN NomErr ELSE NomOk(r.rest, EthernetValue(r.val))

\* mutant: the ethertype read with be_u8
EthernetFromBytes_U8Type(bytes) == EthernetParsed(DoParse(bytes, <<6, 6, 1>>))

EthernetFromBytes(bytes) == EthernetParsed(DoParse(bytes, <<6, 6, 2>>))

EthernetAsBytes(v) == v.destination \o v.source \o WriteU16(v.eth_type)

---------------------------------------------------------------------------
(* Dot1Q: tci is read and written before tpid                              *)

\* mutant: tpid read before tci
Dot1QValue_TpidFirst(f) ==
    [kind |-> "VLAN", tpid |-> BeUint(f[1]), tci |-> BeUint(f[2])]

Dot1QValue(f) == [kind |-> "VLAN", tci |-> BeUint(f[1]), tpid |-> BeUint(f[2])]

Dot1QParsed(r) ==
    IF r.status = "err" THEN NomErr ELSE NomOk(r.rest, Dot1QValue(r.val))

\* mutant: tci and tpid read with be_u8, a tag of two bytes
Dot1QFromBytes_ShortTag(bytes) == Dot1QParsed(DoParse(bytes, <<1, 1>>))

Dot1QFromBytes(bytes) == Dot1QParsed(DoParse(bytes, <<2, 2>>))

Dot1QAsBytes(v) == WriteU16(v.tci) \o WriteU16(v.tpid)

---------------------------------------------------------------------------
(* ARP: always 6-byte hardware and 4-byte protocol addresses               *)

ArpValue(f) ==
    [kind |-> "ARP",
     hardware_type |-> BeUint(f[1]),
     protocol_type |-> BeUint(f[2]),
     hardware_length |-> BeUint(f[3]),
     protocol_length |-> BeUint(f[4]),
     operation |-> BeUint(f[5]),
     sha |-> f[6], spa |-> f[7], tha |-> f[8], tpa |-> f[9]]

ArpParsed(r) ==
    IF r.status = "err" THEN NomErr ELSE NomOk(r.rest, ArpValue(r.val))

ArpFromBytes(bytes) == ArpParsed(DoParse(bytes, <<2, 2, 1, 1, 2, 6, 4, 6, 4>>))

ArpAsBytes(v) ==
    WriteU16(v.hardware_type) \o WriteU16(v.protocol_type)
    \o <<v.hardware_length>> \o <<v.protocol_length>>
    \o WriteU16(v.operation) \o v.sha \o v.spa \o v.tha \o v.tpa

---------------------------------------------------------------------------
(* IPv4: the options length (version_ihl & 0x0f) * 4 - 20 is computed in   *)
(* u8; with overflow checks the subtraction panics below 20, without them  *)
(* it wraps modulo 256.                                                    *)

IPv4OptionsLen(version_ihl, checks) ==
    IF (version_ihl % 16) * 4 >= 20 THEN U8((version_ihl % 16) * 4 - 20)
    ELSE IF checks THEN Panic
    ELSE U8((version_ihl % 16) * 4 + 256 - 20)

IPv4Value(f, options) ==
    [kind |-> "IPv4",
     version_ihl |-> BeUint(f[1]),
     tos |-> BeUint(f[2]),
     total_length |-> BeUint(f[3]),
     identifier |-> BeUint(f[4]),
     fragment_offset |-> BeUint(f[5]),
     ttl |-> BeUint(f[6]),
     protocol |-> BeUint(f[7]),
     checksum |-> BeUint(f[8]),
     source |-> f[9],
     destination |-> f[10],
     options |-> options]

\* o: the result of take!(len) on what follows the fixed fields
IPv4Parsed(f, o) ==
    IF o.status = "err" THEN NomErr ELSE NomOk(o.rest, IPv4Value(f, o.val))

IPv4Options(r, len) ==
    IF len.status = "panic" THEN Panic
    ELSE IPv4Parsed(r.val, NomTake(r.rest, len.val))

IPv4Fixed(r, checks) ==
    IF r.status = "err" THEN NomErr
    ELSE IPv4Options(r, IPv4OptionsLen(BeUint(r.val[1]), checks))

IPv4FromBytes(bytes, checks) ==
    IPv4Fixed(DoParse(bytes, <<1, 1, 2, 2, 2, 1, 1, 2, 4, 4>>), checks)

\* mutant: the options are not written
IPv4AsBytes_NoOptions(v) ==
    <<v.version_ihl>> \o <<v.tos>> \o WriteU16(v.total_length)
    \o WriteU16(v.identifier) \o WriteU16(v.fragment_offset)
    \o <<v.ttl>> \o <<v.protocol>> \o WriteU16(v.checksum)
    \o v.source \o v.destination

IPv4AsBytes(v) ==
    <<v.version_ihl>> \o <<v.tos>> \o WriteU16(v.total_length)
    \o WriteU16(v.identifier) \o WriteU16(v.fragment_offset)
    \o <<v.ttl>> \o <<v.protocol>> \o WriteU16(v.checksum)
    \o v.source \o v.destination \o v.options

\* while tmp_sum > 0xffff { tmp_sum = (tmp_sum >> 16) + (tmp_sum & 0xffff) }
RECURSIVE FoldCarries(_)
FoldCarries(tmp_sum) ==
    IF tmp_sum > 65535
    THEN FoldCarries((tmp_sum \div 65536) + (tmp_sum % 65536))
    ELSE tmp_sum

RECURSIVE SumOf(_)
SumOf(fields) ==
    IF fields = <<>> THEN 0 ELSE fields[1] + SumOf(Drop(fields, 1))

\* the nine words summed: the checksum field and the options are not among
\* them
IPv4ChecksumFields(v) ==
    <<v.version_ihl * 256 + v.tos, v.total_length, v.identifier,
      v.fragment_offset, v.ttl * 256 + v.protocol,
      BeUint(Take(v.source, 2)), BeUint(Drop(v.source, 2)),
      BeUint(Take(v.destination, 2)), BeUint(Drop(v.destination, 2))>>

calculate_ip_checksum(v) == 65535 - FoldCarries(SumOf(IPv4ChecksumFields(v)))

---------------------------------------------------------------------------
(* ICMPv4: four header bytes, the rest of the slice is the payload         *)

Icmpv4Value(f, payload) ==
    [kind |-> "ICMP4",
     icmp_code |-> BeUint(f[1]),
     icmp_type |-> BeUint(f[2]),
     checksum |-> BeUint(f[3]),
     payload |-> payload]

\* mutant: the payload is also returned as the remaining slice
Icmpv4Parsed_KeepsRest(r) ==
    IF r.status = "err" THEN NomErr ELSE NomOk(r.rest, Icmpv4Value(r.val, r.rest))

Icmpv4Parsed(r) ==
    IF r.status = "err" THEN NomErr ELSE NomOk(<<>>, Icmpv4Value(r.val, r.rest))

Icmpv4FromBytes(bytes) == Icmpv4Parsed(DoParse(bytes, <<1, 1, 2>>))

Icmpv4AsBytes(v) ==
    <<v.icmp_code>> \o <<v.icmp_type>> \o WriteU16(v.checksum) \o v.payload

\* u16::from_ne_bytes([i[1], i[0]]): the first array element is the low
\* byte on a little-endian target and the high byte on a big-endian one
FromNeBytes(a, little) ==
    IF little THEN a[2] * 256 + a[1] ELSE a[1] * 256 + a[2]

\* payload.chunks_exact(2) mapped to words; a trailing odd byte is left out
Icmpv4PayloadWords(payload, little) ==
    [i \in 1..(Len(payload) \div 2) |->
        FromNeBytes(<<payload[2 * i], payload[2 * i - 1]>>, little)]

Icmpv4ChecksumFields(v, little) ==
    <<v.icmp_code * 256 + v.icmp_type>> \o Icmpv4PayloadWords(v.payload, little)

\* !(((sum & 0xffff) + (sum >> 16)) & 0xffff) as u16: one fold, the carry
\* out of that fold is masked away
Icmpv4Folded(sum) == 65535 - (((sum % 65536) + (sum \div 65536)) % 65536)

calculate_icmp_checksum(v, little) ==
    Icmpv4Folded(SumOf(Icmpv4ChecksumFields(v, little)))

---------------------------------------------------------------------------
(* UDP                                                                    *)

UdpValue(f) ==
    [kind |-> "UDP",
     source |-> BeUint(f[1]),
     destination |-> BeUint(f[2]),
     length |-> BeUint(f[3]),
     checksum |-> BeUint(f[4])]

UdpParsed(r) ==
    IF r.status = "err" THEN NomErr ELSE NomOk(r.rest, UdpValue(r.val))

UdpFromBytes(bytes) == UdpParsed(DoParse(bytes, <<2, 2, 2, 2>>))

UdpAsBytes(v) ==
    WriteU16(v.source) \o WriteU16(v.destination)
    \o WriteU16(v.length) \o WriteU16(v.checksum)

---------------------------------------------------------------------------
(* TCP options: kind, then for kinds other than 0 and 1 a length byte and  *)
(* length - 2 value bytes; length - 2 is computed in u8.                   *)

TcpOptionValueLen(length, checks) ==
    IF length >= 2 THEN U8(length - 2)
    ELSE IF checks THEN Panic
    ELSE U8(length + 256 - 2)

\* v: the result of take(length - 2) after the length byte
TcpOptionValue(length, v) ==
    IF v.status = "err" THEN NomErr
    ELSE NomOk(v.rest, [length |-> length, data |-> v.val])

TcpOptionLength(l, n) ==
    IF n.status = "panic" THEN Panic
    ELSE TcpOptionValue(l.val, NomTake(l.rest, n.val))

\* l: the result of be_u8 reading the length byte
TcpOptionData(l, checks) ==
    IF l.status = "err" THEN NomErr
    ELSE TcpOptionLength(l, TcpOptionValueLen(l.val[1], checks))

\* mutant: only kind 0 stands alone, a no-op reads a length byte
tcp_option_data_NoOpHasLength(bytes, number, checks) ==
    IF number = 0 THEN NomOk(bytes, [length |-> <<>>, data |-> <<>>])
    ELSE TcpOptionData(NomTake(bytes, 1), checks)

tcp_option_data(bytes, number, checks) ==
    IF number \in {0, 1} THEN NomOk(bytes, [length |-> <<>>, data |-> <<>>])
    ELSE TcpOptionData(NomTake(bytes, 1), checks)

TcpOptionParsed(number, d) ==
    IF d.status # "ok" THEN d
    ELSE NomOk(d.rest, [number |-> number, length |-> d.val.length,
                        data |-> d.val.data])

\* k: the result of be_u8 reading the kind
TcpOptionKind(k, checks) ==
    IF k.status = "err" THEN NomErr
    ELSE TcpOptionParsed(k.val[1], tcp_option_data(k.rest, k.val[1], checks))

TcpOptionFromBytes(bytes, checks) == TcpOptionKind(NomTake(bytes, 1), checks)

TcpOptionAsBytes(o) == <<o.number>> \o o.length \o o.data

\* what the loop returns after pushing `option`, given the rest of the loop
OptionsPushed(option, t) ==
    IF t.status = "panic" THEN Panic ELSE U8(<<option>> \o t.val)

\* The loop of Tcp::parse_options: every option is unwrapped, so an Err of
\* TcpOption::from_bytes (also the one at the end of the slice) panics; the
\* loop returns only after pushing an option of kind 0.
RECURSIVE parse_options(_, _)
RECURSIVE OptionsLoop(_, _)
OptionsLoop(r, checks) ==
    IF r.status # "ok" THEN Panic
    ELSE IF r.val.number = 0 THEN U8(<<r.val>>)
    ELSE OptionsPushed(r.val, parse_options(r.rest, checks))

parse_options(bytes, checks) ==
    OptionsLoop(TcpOptionFromBytes(bytes, checks), checks)

---------------------------------------------------------------------------
(* TCP: the options length ((data_ofs_ns >> 4) - 5) * 4 is computed in u8  *)

TcpOptionsLen(data_ofs_ns, checks) ==
    IF data_ofs_ns \div 16 >= 5 THEN U8(((data_ofs_ns \div 16) - 5) * 4)
    ELSE IF checks THEN Panic
    ELSE U8((((data_ofs_ns \div 16) + 256 - 5) * 4) % 256)

TcpValue(f, data_ofs_ns, flags_rest, options) ==
    [kind |-> "TCP",
     source |-> BeUint(f[1]),
     destination |-> BeUint(f[2]),
     sequence |-> BeU32(f[3]),
     acknowledgement |-> BeU32(f[4]),
     data_offset |-> data_ofs_ns \div 16,
     ns |-> Bit(data_ofs_ns, 0),
     cwr |-> Bit(flags_rest, 7),
     ece |-> Bit(flags_rest, 6),
     urg |-> Bit(flags_rest, 5),
     ack |-> Bit(flags_rest, 4),
     psh |-> Bit(flags_rest, 3),
     rst |-> Bit(flags_rest, 2),
     syn |-> Bit(flags_rest, 1),
     fin |-> Bit(flags_rest, 0),
     window_size |-> BeUint(f[7]),
     checksum |-> BeUint(f[8]),
     urgent_ptr |-> BeUint(f[9]),
     options |-> options]

TcpParsed(f, rest, opts) ==
    IF opts.status = "panic" THEN Panic
    ELSE NomOk(rest, TcpValue(f, BeUint(f[5]), BeUint(f[6]), opts.val))

\* o: the result of take!(len) on what follows the fixed fields
TcpOptionsBin(f, o, checks) ==
    IF o.status = "err" THEN NomErr
    ELSE TcpParsed(f, o.rest, parse_options(o.val, checks))

TcpOptions(r, len, checks) ==
    IF len.status = "panic" THEN Panic
    ELSE TcpOptionsBin(r.val, NomTake(r.rest, len.val), checks)

TcpFixed(r, checks) ==
    IF r.status = "err" THEN NomErr
    ELSE TcpOptions(r, TcpOptionsLen(BeUint(r.val[5]), checks), checks)

TcpFromBytes(bytes, checks) ==
    TcpFixed(DoParse(bytes, <<2, 2, 4, 4, 1, 1, 2, 2, 2>>), checks)

\* the fold of Tcp::as_bytes over the options
RECURSIVE OptionsAsBytes(_)
OptionsAsBytes(options) ==
    IF options = <<>> THEN <<>>
    ELSE TcpOptionAsBytes(options[1]) \o OptionsAsBytes(Drop(options, 1))

\* (data_offset - 5) * 4 - options_bin.len() as u8, in u8; with overflow
\* checks each of the three operations panics when it leaves 0..255
TcpPadLen(data_offset, binlen, checks) ==
    IF checks /\ \/ data_offset < 5
                 \/ (data_offset - 5) * 4 > 255
                 \/ (data_offset - 5) * 4 < binlen % 256
    THEN Panic
    ELSE U8((((((data_offset + 256 - 5) % 256) * 4) % 256)
             + 256 - (binlen % 256)) % 256)

Zeros(n) == [i \in 1..n |-> 0]

TcpWritten(v, options_bin, pad_len) ==
    IF pad_len.status = "panic" THEN Panic
    ELSE U8(WriteU16(v.source) \o WriteU16(v.destination)
            \o WriteU32(v.sequence) \o WriteU32(v.acknowledgement)
            \o <<((v.data_offset * 16) % 256) + v.ns>>
            \o <<v.cwr * 128 + v.ece * 64 + v.urg * 32 + v.ack * 16
                 + v.psh * 8 + v.rst * 4 + v.syn * 2 + v.fin>>
            \o WriteU16(v.window_size) \o WriteU16(v.checksum)
            \o WriteU16(v.urgent_ptr)
            \o options_bin \o Zeros(pad_len.val))

TcpPadded(v, options_bin, checks) ==
    TcpWritten(v, options_bin, TcpPadLen(v.data_offset, Len(options_bin), checks))

\* the bytes written, or a panic
TcpAsBytes(v, checks) == TcpPadded(v, OptionsAsBytes(v.options), checks)

---------------------------------------------------------------------------
(* GRE: flags, version, protocol, then the fields the flags announce.      *)
(* parse_options tests single bits of the flags; from_bytes sets has_key   *)
(* and has_sequence from shifts, which also see the bits above.            *)

GreWidths(flags) ==
    (IF Bit(flags, 7) = 1 THEN <<2, 2>> ELSE <<>>)
    \o (IF Bit(flags, 5) = 1 THEN <<4>> ELSE <<>>)
    \o (IF Bit(flags, 4) = 1 THEN <<4>> ELSE <<>>)

\* (csum, key, seq) from the fields read, 0 for a field not read
GreOptionValues(flags, f) ==
    <<IF Bit(flags, 7) = 1 THEN BeUint(f[1]) ELSE 0,
      IF Bit(flags, 5) = 1 THEN BeU32(f[1 + 2 * Bit(flags, 7)]) ELSE <<0, 0>>,
      IF Bit(flags, 4) = 1
      THEN BeU32(f[1 + 2 * Bit(flags, 7) + Bit(flags, 5)])
      ELSE <<0, 0>>>>

GreOptionsRead(flags, r) ==
    IF r.status = "err" THEN NomErr
    ELSE NomOk(r.rest, GreOptionValues(flags, r.val))

GreParseOptions(bytes0, flags) ==
    GreOptionsRead(flags, DoParse(bytes0, GreWidths(flags)))

GreValue(flags, version, protocol, options) ==
    [kind |-> "GRE",
     has_csum |-> (flags \div 128) # 0,
     has_key |-> (flags \div 32) # 0,
     has_sequence |-> (flags \div 16) # 0,
     version |-> version % 8,
     protocol |-> protocol,
     checksum |-> options[1],
     key |-> options[2],
     sequence |-> options[3]]

\* o: the result of parse_options on what follows the fixed fields
GreParsed(f, o) ==
    IF o.status = "err" THEN NomErr
    ELSE NomOk(o.rest, GreValue(BeUint(f[1]), BeUint(f[2]), BeUint(f[3]), o.val))

GreFixed(r) ==
    IF r.status = "err" THEN NomErr
    ELSE GreParsed(r.val, GreParseOptions(r.rest, BeUint(r.val[1])))

GreFromBytes(bytes) == GreFixed(DoParse(bytes, <<1, 1, 2>>))

\* mutant: the key is written before the checksum
GreAsBytes_KeyFirst(v) ==
    <<(IF v.has_csum THEN 128 ELSE 0) + (IF v.has_key THEN 32 ELSE 0)
      + (IF v.has_sequence THEN 16 ELSE 0), v.version>>
    \o WriteU16(v.protocol)
    \o (IF v.has_key THEN WriteU32(v.key) ELSE <<>>)
    \o (IF v.has_csum THEN WriteU16(v.checksum) \o WriteU16(0) ELSE <<>>)
    \o (IF v.has_sequence THEN WriteU32(v.sequence) ELSE <<>>)

GreAsBytes(v) ==
    <<(IF v.has_csum THEN 128 ELSE 0) + (IF v.has_key THEN 32 ELSE 0)
      + (IF v.has_sequence THEN 16 ELSE 0), v.version>>
    \o WriteU16(v.protocol)
    \o (IF v.has_csum THEN WriteU16(v.checksum) \o WriteU16(0) ELSE <<>>)
    \o (IF v.has_key THEN WriteU32(v.key) ELSE <<>>)
    \o (IF v.has_sequence THEN WriteU32(v.sequence) ELSE <<>>)

---------------------------------------------------------------------------
(* Packet: the layer list and the dispatcher                               *)

ETH_P_ARP == 2054

ETH_P_802_1Q == 33024

ETH_P_IP == 2048

IPPROTO_ICMP == 1

IPPROTO_TCP == 6

IPPROTO_UDP == 17

Payload(bytes) == [kind |-> "Payload", data |-> bytes]

\* the parse_* wrappers: Err(_e) => Err(bytes), Ok((leftover, v)) => Ok
Wrap(bytes, r) ==
    IF r.status = "err" THEN [status |-> "err", rest |-> bytes] ELSE r

parse_eth(bytes) == Wrap(bytes, EthernetFromBytes(bytes))

parse_arp(bytes) == Wrap(bytes, ArpFromBytes(bytes))

parse_vlan(bytes) == Wrap(bytes, Dot1QFromBytes(bytes))

parse_ip4(bytes, checks) == Wrap(bytes, IPv4FromBytes(bytes, checks))

parse_icmp4(bytes) == Wrap(bytes, Icmpv4FromBytes(bytes))

parse_tcp(bytes, checks) == Wrap(bytes, TcpFromBytes(bytes, checks))

parse_udp(bytes) == Wrap(bytes, UdpFromBytes(bytes))

\* mutant: protocol 6 sent to the UDP arm
NextCodec_TcpAsUdp(last) ==
    CASE last.kind = "ETHER" /\ last.eth_type = ETH_P_ARP -> "arp"
      [] last.kind = "VLAN" /\ last.tpid = ETH_P_ARP -> "arp"
      [] last.kind = "ETHER" /\ last.eth_type = ETH_P_802_1Q -> "vlan"
      [] last.kind = "VLAN" /\ last.tpid = ETH_P_802_1Q -> "vlan"
      [] last.kind = "ETHER" /\ last.eth_type = ETH_P_IP -> "ip4"
      [] last.kind = "VLAN" /\ last.tpid = ETH_P_IP -> "ip4"
      [] last.kind = "IPv4" /\ last.protocol = IPPROTO_ICMP -> "icmp4"
      [] last.kind = "IPv4" /\ last.protocol = IPPROTO_TCP -> "udp"
      [] last.kind = "IPv4" /\ last.protocol = IPPROTO_UDP -> "udp"
      [] OTHER -> "other"

\* the arm of parse_next's match that pkt.last() selects
NextCodec(last) ==
    CASE last.kind = "ETHER" /\ last.eth_type = ETH_P_ARP -> "arp"
      [] last.kind = "VLAN" /\ last.tpid = ETH_P_ARP -> "arp"
      [] last.kind = "ETHER" /\ last.eth_type = ETH_P_802_1Q -> "vlan"
      [] last.kind = "VLAN" /\ last.tpid = ETH_P_802_1Q -> "vlan"
      [] last.kind = "ETHER" /\ last.eth_type = ETH_P_IP -> "ip4"
      [] last.kind = "VLAN" /\ last.tpid = ETH_P_IP -> "ip4"
      [] last.kind = "IPv4" /\ last.protocol = IPPROTO_ICMP -> "icmp4"
      [] last.kind = "IPv4" /\ last.protocol = IPPROTO_TCP -> "tcp"
      [] last.kind = "IPv4" /\ last.protocol = IPPROTO_UDP -> "udp"
      [] OTHER -> "other"

\* mutant: the fallback arm returns the slice instead of the empty slice
Dispatch_OtherKeepsSlice(bytes, codec, checks) ==
    CASE codec = "arp" -> parse_arp(bytes)
      [] codec = "vlan" -> parse_vlan(bytes)
      [] codec = "ip4" -> parse_ip4(bytes, checks)
      [] codec = "icmp4" -> parse_icmp4(bytes)
      [] codec = "tcp" -> parse_tcp(bytes, checks)
      [] codec = "udp" -> parse_udp(bytes)
      [] OTHER -> NomOk(bytes, Payload(bytes))

\* mutant: the fallback arm leaves the first byte out of the Payload
Dispatch_OtherSkipsByte(bytes, codec, checks) ==
    CASE codec = "arp" -> parse_arp(bytes)
      [] codec = "vlan" -> parse_vlan(bytes)
      [] codec = "ip4" -> parse_ip4(bytes, checks)
      [] codec = "icmp4" -> parse_icmp4(bytes)
      [] codec = "tcp" -> parse_tcp(bytes, checks)
      [] codec = "udp" -> parse_udp(bytes)
      [] OTHER -> NomOk(<<>>, Payload(Drop(bytes, 1)))

\* `result` of parse_next, for the arm `codec`
Dispatch(bytes, codec, checks) ==
    CASE codec = "arp" -> parse_arp(bytes)
      [] codec = "vlan" -> parse_vlan(bytes)
      [] codec = "ip4" -> parse_ip4(bytes, checks)
      [] codec = "icmp4" -> parse_icmp4(bytes)
      [] codec = "tcp" -> parse_tcp(bytes, checks)
      [] codec = "udp" -> parse_udp(bytes)
      [] OTHER -> NomOk(<<>>, Payload(bytes))

\* mutant: the Err arm returns the slice instead of the empty slice
Pushed_ErrKeepsSlice(bytes, pkt, result) ==
    CASE result.status = "panic" ->
            [status |-> "panic", pkt |-> pkt, leftover |-> bytes]
      [] result.status = "err" ->
            [status |-> "ok", pkt |-> Append(pkt, Payload(result.rest)),
             leftover |-> bytes]
      [] OTHER ->
            [status |-> "ok", pkt |-> Append(pkt, result.val),
             leftover |-> result.rest]

\* mutant: the Err arm forgets to push the Payload
Pushed_ErrDropsSlice(bytes, pkt, result) ==
    CASE result.status = "panic" ->
            [status |-> "panic", pkt |-> pkt, leftover |-> bytes]
      [] result.status = "err" ->
            [status |-> "ok", pkt |-> pkt, leftover |-> <<>>]
      [] OTHER ->
            [status |-> "ok", pkt |-> Append(pkt, result.val),
             leftover |-> result.rest]

\* the second match of parse_next: the layer list and the slice returned
Pushed(bytes, pkt, result) ==
    CASE result.status = "panic" ->
            [status |-> "panic", pkt |-> pkt, leftover |-> bytes]
      [] result.status = "err" ->
            [status |-> "ok", pkt |-> Append(pkt, Payload(result.rest)),
             leftover |-> <<>>]
      [] OTHER ->
            [status |-> "ok", pkt |-> Append(pkt, result.val),
             leftover |-> result.rest]

\* parse_next: the layer list and the slice it returns, or a panic
parse_next(bytes, pkt, checks) ==
    Pushed(bytes, pkt, Dispatch(bytes, NextCodec(Last(pkt)), checks))

---------------------------------------------------------------------------
(* The frames Packet::parse is given                                       *)

MaxTags == 2

FillLen == 280

MacDst == <<255, 255, 255, 255, 255, 255>>

MacSrc == <<202, 3, 13, 180, 0, 28>>

EthHdr(t) == MacDst \o MacSrc \o WriteU16(t)

\* tags i..k of a stack of k tags; the last one announces type t
RECURSIVE Tags(_, _, _)
Tags(i, k, t) ==
    IF i > k THEN <<>>
    ELSE WriteU16(100 * i)
         \o WriteU16(IF i < k THEN ETH_P_802_1Q ELSE t)
         \o Tags(i + 1, k, t)

Link(k, t) == EthHdr(IF k = 0 THEN t ELSE ETH_P_802_1Q) \o Tags(1, k, t)

ArpBody ==
    <<0, 1, 8, 0, 6, 4, 0, 1, 202, 3, 13, 180, 0, 28, 192, 168, 2, 200,
      0, 0, 0, 0, 0, 0, 192, 168, 2, 254>>

\* an ARP header declaring 8-byte hardware and 16-byte protocol addresses
ArpOddLengths ==
    <<0, 1, 8, 0, 8, 16, 0, 2, 202, 3, 13, 180, 0, 28, 192, 168, 2, 200,
      1, 2, 3, 4, 5, 6, 192, 168, 2, 254>>

IhlBytes == {69, 70, 68, 64}

Ip4Options == <<7, 4, 1, 2>>

Ip4Hdr(version_ihl, protocol) ==
    <<version_ihl, 0, 1, 72, 0, 0, 0, 0, 128, protocol, 57, 166,
      10, 0, 0, 1, 10, 0, 0, 2>>
    \o (IF version_ihl = 70 THEN Ip4Options ELSE <<>>)

IcmpBody == <<0, 0, 147, 214, 5, 65, 0>>

UdpBody == <<130, 117, 122, 105, 0, 14, 166, 14>>

TcpHdr(data_ofs_ns) ==
    <<0, 80, 217, 184, 222, 13, 22, 43, 241, 75, 9, 12,
      data_ofs_ns, 18, 17, 4, 140, 86, 0, 0>>

\* byte 12 and the options region that follows the 20 fixed bytes
TcpShapes ==
    { <<80, <<>>>>,
      <<96, <<0, 0, 0, 0>>>>,
      <<96, <<1, 1, 1, 0>>>>,
      <<96, <<0, 1, 2, 3>>>>,
      <<110, <<0, 0, 0, 0>>>>,
      <<97, <<1, 0, 0, 0>>>>,
      <<96, <<1, 1, 1, 1>>>>,
      <<96, <<2, 0, 0, 0>>>>,
      <<96, <<2, 9, 0, 0>>>>,
      <<96, <<2, 1, 0, 0>>>>,
      <<96, <<2, 4, 5, 172>>>>,
      <<112, <<2, 4, 5, 172, 1, 1, 1, 0>>>>,
      <<176, <<2, 4, 5, 172, 1, 3, 3, 0, 1, 1, 8, 10, 190, 15, 172, 236,
               0, 64, 161, 73, 4, 2, 0, 0>>>>,
      <<64, <<>>>> }

Trailer == <<222, 173>>

Filler ==
    [i \in 1..FillLen |-> IF i = 1 THEN 1 ELSE IF i = 2 THEN 0 ELSE (i % 200) + 3]

Ip4Bodies ==
    UNION { { Ip4Hdr(v, IPPROTO_ICMP) \o IcmpBody,
              Ip4Hdr(v, IPPROTO_UDP) \o UdpBody,
              Ip4Hdr(v, 47) }
            \cup { Ip4Hdr(v, IPPROTO_TCP) \o TcpHdr(s[1]) \o s[2] : s \in TcpShapes }
          : v \in IhlBytes }

ShortFrames ==
    UNION { { Link(k, ETH_P_ARP) \o ArpBody \o Trailer,
              Link(k, ETH_P_ARP) \o ArpBody \o Zeros(14),
              Link(k, ETH_P_ARP) \o ArpOddLengths \o Trailer,
              Link(k, 39321) \o Trailer }
            \cup { Link(k, ETH_P_IP) \o b \o Trailer : b \in Ip4Bodies }
          : k \in 0..MaxTags }

\* (39321 = 0x9999 is an ethertype and 47 a protocol the dispatcher does
\* not know)

\* frames long enough for a wrapped options length (236..252) to be read
LongFrames ==
    UNION { { EthHdr(ETH_P_IP) \o Ip4Hdr(v, IPPROTO_UDP) \o Filler : v \in {68, 64} },
            { EthHdr(ETH_P_IP) \o Ip4Hdr(69, IPPROTO_TCP) \o TcpHdr(d) \o Filler
              : d \in {64, 0} } }

Prefixes(f) == { Take(f, n) : n \in 0..Len(f) }

Frames ==
    UNION { Prefixes(f) : f \in ShortFrames }
    \cup LongFrames
    \cup { Take(f, Len(f) - 40) : f \in LongFrames }

---------------------------------------------------------------------------
(* Packet::parse as a state machine: pc is "parse" before parse_eth,       *)
(* "loop" at the head of the while loop, "done" once headers is returned   *)
(* and "panic" when a panic unwinds out of parse.                          *)

Init ==
    /\ frame \in Frames
    /\ overflow_checks \in BOOLEAN
    /\ little_endian \in BOOLEAN
    /\ pc = "parse"
    /\ headers = <<>>
    /\ leftover = frame
    /\ out = Nothing

\* what parse does with the result r of parse_eth
EthParsed(r) ==
    /\ headers' = IF r.status = "err" THEN <<Payload(r.rest)>> ELSE <<r.val>>
    /\ leftover' = IF r.status = "err" THEN <<>> ELSE r.rest
    /\ pc' = IF r.status = "err" THEN "done" ELSE "loop"

ParseEth ==
    /\ pc = "parse"
    /\ EthParsed(parse_eth(frame))
    /\ UNCHANGED <<frame, overflow_checks, little_endian, out>>

\* one pass of the while loop, r the outcome of parse_next
Looped(r) ==
    /\ headers' = r.pkt
    /\ leftover' = r.leftover
    /\ pc' = IF r.status = "panic" THEN "panic" ELSE "loop"

\* the while loop taking the "arp" arm of parse_next
NextArp ==
    /\ pc = "loop"
    /\ leftover # <<>>
    /\ NextCodec(Last(headers)) = "arp"
    /\ Looped(parse_next(leftover, headers, overflow_checks))
    /\ UNCHANGED <<frame, overflow_checks, little_endian, out>>

\* the while loop taking the "vlan" arm of parse_next
NextVlan ==
    /\ pc = "loop"
    /\ leftover # <<>>
    /\ NextCodec(Last(headers)) = "vlan"
    /\ Looped(parse_next(leftover, headers, overflow_checks))
    /\ UNCHANGED <<frame, overflow_checks, little_endian, out>>

\* the while loop taking the "ip4" arm of parse_next
NextIp4 ==
    /\ pc = "loop"
    /\ leftover # <<>>
    /\ NextCodec(Last(headers)) = "ip4"
    /\ Looped(parse_next(leftover, headers, overflow_checks))
    /\ UNCHANGED <<frame, overflow_checks, little_endian, out>>

\* the while loop taking the "icmp4" arm of parse_next
NextIcmp4 ==
    /\ pc = "loop"
    /\ leftover # <<>>
    /\ NextCodec(Last(headers)) = "icmp4"
    /\ Looped(parse_next(leftover, headers, overflow_checks))
    /\ UNCHANGED <<frame, overflow_checks, little_endian, out>>

\* the while loop taking the "tcp" arm of parse_next
NextTcp ==
    /\ pc = "loop"
    /\ leftover # <<>>
    /\ NextCodec(Last(headers)) = "tcp"
    /\ Looped(parse_next(leftover, headers, overflow_checks))
    /\ UNCHANGED <<frame, overflow_checks, little_endian, out>>

\* the while loop taking the "udp" arm of parse_next
NextUdp ==
    /\ pc = "loop"
    /\ leftover # <<>>
    /\ NextCodec(Last(headers)) = "udp"
    /\ Looped(parse_next(leftover, headers, overflow_checks))
    /\ UNCHANGED <<frame, overflow_checks, little_endian, out>>

\* mutant: the loop does not test the slice before the "other" arm
NextOther_RunsOnEmpty ==
    /\ pc = "loop"
    /\ NextCodec(Last(headers)) = "other"
    /\ Looped(parse_next(leftover, headers, overflow_checks))
    /\ UNCHANGED <<frame, overflow_checks, little_endian, out>>

\* the while loop taking the "other" arm of parse_next
NextOther ==
    /\ pc = "loop"
    /\ leftover # <<>>
    /\ NextCodec(Last(headers)) = "other"
    /\ Looped(parse_next(leftover, headers, overflow_checks))
    /\ UNCHANGED <<frame, overflow_checks, little_endian, out>>

Return ==
    /\ pc = "loop"
    /\ leftover = <<>>
    /\ pc' = "done"
    /\ UNCHANGED <<frame, overflow_checks, little_endian, headers, leftover, out>>

Next ==
    \/ ParseEth
    \/ NextArp
    \/ NextVlan
    \/ NextIp4
    \/ NextIcmp4
    \/ NextTcp
    \/ NextUdp
    \/ NextOther
    \/ Return

Spec == Init /\ [][Next]_vars

---------------------------------------------------------------------------
(* The codecs and checksum functions called on their own, as the tests of  *)
(* gre.rs, ipv4.rs and icmpv4.rs call them: from_bytes on a captured       *)
(* header, then as_bytes and from_bytes again (GRE) or the checksum        *)
(* function (IPv4, ICMPv4). pc is "gre", "ip4" or "icmp4" before           *)
(* from_bytes, then "decoded" ("failed" on Err, "panic" on a panic),       *)
(* "encoded" after as_bytes, "redecoded" after the second from_bytes and   *)
(* "summed" after the checksum function.                                   *)

GreFlagSubsets == { 128 * a + 32 * b + 16 * c : a, b, c \in {0, 1} }

GreHdr(flags) == <<flags, 0, 8, 0>>

\* checksum 128 and reserved word, key 12345, sequence 1, each present when
\* its bit is set
GreFields(flags, reserved) ==
    (IF Bit(flags, 7) = 1 THEN <<0, 128>> \o reserved ELSE <<>>)
    \o (IF Bit(flags, 5) = 1 THEN <<0, 0, 48, 57>> ELSE <<>>)
    \o (IF Bit(flags, 4) = 1 THEN <<0, 0, 0, 1>> ELSE <<>>)

\* the first bytes of the IPv4 header a GRE header carries
GreInner == <<69, 0>>

GreCaptured(flags, reserved) ==
    GreHdr(flags) \o GreFields(flags, reserved) \o GreInner

GreFrames ==
    { GreCaptured(flags, <<0, 0>>) : flags \in 0..255 }
    \cup UNION { Prefixes(GreCaptured(flags, <<0, 0>>)) : flags \in GreFlagSubsets }
    \cup { GreCaptured(176, <<0, 7>>) }

\* the header of tests_ipv4::parse with the stored checksum given
Ip4Captured(checksum) ==
    <<69, 0, 1, 72, 0, 0, 0, 0, 128, 17>> \o checksum
    \o <<0, 0, 0, 0, 255, 255, 255, 255>> \o <<0, 68, 0, 67>>

\* a header with four option bytes
Ip4CapturedOptions(checksum) ==
    <<70, 0, 0, 32, 18, 52, 64, 0, 64, 1>> \o checksum
    \o <<10, 0, 0, 1, 10, 0, 0, 2>> \o <<7, 4, 1, 2>> \o <<8, 0, 247, 255>>

\* each header with its correct checksum and with a wrong one
Ip4Frames ==
    { Ip4Captured(<<57, 166>>), Ip4Captured(<<0, 0>>),
      Ip4CapturedOptions(<<11, 161>>), Ip4CapturedOptions(<<19, 167>>) }
    \cup Prefixes(Ip4CapturedOptions(<<11, 161>>))

\* the message of tests_icmp4::parse
Icmp4Captured ==
    <<0, 0, 147, 214, 5, 65, 0, 1, 113, 241, 102, 82, 0, 0, 0, 0,
      198, 208, 9, 0, 0, 0, 0, 0>>
    \o [i \in 1..40 |-> 15 + i]

Icmp4Frames ==
    { Icmp4Captured,
      Take(Icmp4Captured, 63),
      <<8, 0, 247, 255>>,
      <<8, 0, 143, 83, 18, 52, 86, 120, 154>>,
      <<0, 0, 255, 254, 255, 255, 255, 255, 0, 1>>,
      <<8, 0>> }

CodecInit ==
    /\ \/ pc = "gre" /\ frame \in GreFrames
       \/ pc = "ip4" /\ frame \in Ip4Frames
       \/ pc = "icmp4" /\ frame \in Icmp4Frames
    /\ overflow_checks \in BOOLEAN
    /\ little_endian \in BOOLEAN
    /\ headers = <<>>
    /\ leftover = frame
    /\ out = Nothing

\* what the caller holds after from_bytes returned r
Decoded(r) ==
    /\ headers' = IF r.status = "ok" THEN <<r.val>> ELSE <<>>
    /\ leftover' = IF r.status = "ok" THEN r.rest ELSE leftover
    /\ pc' = IF r.status = "ok" THEN "decoded"
             ELSE IF r.status = "err" THEN "failed" ELSE "panic"

DecodeGre ==
    /\ pc = "gre"
    /\ Decoded(GreFromBytes(frame))
    /\ UNCHANGED <<frame, overflow_checks, little_endian, out>>

DecodeIp4 ==
    /\ pc = "ip4"
    /\ Decoded(IPv4FromBytes(frame, overflow_checks))
    /\ UNCHANGED <<frame, overflow_checks, little_endian, out>>

DecodeIcmp4 ==
    /\ pc = "icmp4"
    /\ Decoded(Icmpv4FromBytes(frame))
    /\ UNCHANGED <<frame, overflow_checks, little_endian, out>>

EncodeGre ==
    /\ pc = "decoded"
    /\ headers[1].kind = "GRE"
    /\ out' = U8(GreAsBytes(headers[1]))
    /\ pc' = "encoded"
    /\ UNCHANGED <<frame, overflow_checks, little_endian, headers, leftover>>

\* the second from_bytes, on the bytes as_bytes wrote
Redecoded(r) ==
    /\ headers' = IF r.status = "ok" THEN Append(headers, r.val) ELSE headers
    /\ pc' = IF r.status = "ok" THEN "redecoded" ELSE "failed"

RedecodeGre ==
    /\ pc = "encoded"
    /\ Redecoded(GreFromBytes(out.val))
    /\ UNCHANGED <<frame, overflow_checks, little_endian, leftover, out>>

ChecksumIp4 ==
    /\ pc = "decoded"
    /\ headers[1].kind = "IPv4"
    /\ out' = U8(calculate_ip_checksum(headers[1]))
    /\ pc' = "summed"
    /\ UNCHANGED <<frame, overflow_checks, little_endian, headers, leftover>>

ChecksumIcmp4 ==
    /\ pc = "decoded"
    /\ headers[1].kind = "ICMP4"
    /\ out' = U8(calculate_icmp_checksum(headers[1], little_endian))
    /\ pc' = "summed"
    /\ UNCHANGED <<frame, overflow_checks, little_endian, headers, leftover>>

CodecNext ==
    \/ DecodeGre
    \/ DecodeIp4
    \/ DecodeIcmp4
    \/ EncodeGre
    \/ RedecodeGre
    \/ ChecksumIp4
    \/ ChecksumIcmp4

CodecSpec == CodecInit /\ [][CodecNext]_vars

---------------------------------------------------------------------------
(* Reading a layer list                                                    *)

Kinds(pkt) == [i \in 1..Len(pkt) |-> pkt[i].kind]

\* ethertype of an ETHER layer, tag type of a VLAN layer
TypeOf(layer) ==
    IF layer.kind = "ETHER" THEN layer.eth_type
    ELSE IF layer.kind = "VLAN" THEN layer.tpid
    ELSE -1

ProtocolOf(layer) == IF layer.kind = "IPv4" THEN layer.protocol ELSE -1

\* number of input bytes a decoded layer stands for
WireLen(layer) ==
    CASE layer.kind = "ETHER" -> 14
      [] layer.kind = "VLAN" -> 4
      [] layer.kind = "ARP" -> 28
      [] layer.kind = "IPv4" -> 20 + Len(layer.options)
      [] layer.kind = "ICMP4" -> 4 + Len(layer.payload)
      [] layer.kind = "UDP" -> 8
      [] layer.kind = "TCP" -> 20 + (((layer.data_offset + 251) * 4) % 256)
      [] OTHER -> Len(layer.data)

RECURSIVE WireLenOf(_)
WireLenOf(pkt) ==
    IF pkt = <<>> THEN 0 ELSE WireLen(pkt[1]) + WireLenOf(Drop(pkt, 1))

\* as_bytes of a layer, a Payload giving its bytes verbatim
LayerAsBytes(layer, checks) ==
    CASE layer.kind = "ETHER" -> U8(EthernetAsBytes(layer))
      [] layer.kind = "VLAN" -> U8(Dot1QAsBytes(layer))
      [] layer.kind = "ARP" -> U8(ArpAsBytes(layer))
      [] layer.kind = "IPv4" -> U8(IPv4AsBytes(layer))
      [] layer.kind = "ICMP4" -> U8(Icmpv4AsBytes(layer))
      [] layer.kind = "UDP" -> U8(UdpAsBytes(layer))
      [] layer.kind = "TCP" -> TcpAsBytes(layer, checks)
      [] OTHER -> U8(layer.data)

Joined(a, b) ==
    IF a.status = "panic" \/ b.status = "panic" THEN Panic
    ELSE U8(a.val \o b.val)

RECURSIVE Reencoded(_, _)
Reencoded(pkt, checks) ==
    IF pkt = <<>> THEN U8(<<>>)
    ELSE Joined(LayerAsBytes(pkt[1], checks), Reencoded(Drop(pkt, 1), checks))

\* the 16-bit big-endian number at bytes i, i + 1 of the frame
FrameU16(i) == frame[i] * 256 + frame[i + 1]

\* the loop is about to hand the remaining bytes to this codec
AboutToCall(codec) ==
    /\ pc = "loop"
    /\ leftover # <<>>
    /\ NextCodec(Last(headers)) = codec

---------------------------------------------------------------------------
(* C1: Packet::parse never panics: for every frame the call returns a     *)
(* layer list, every decode failure ending in a Payload layer.             *)
(* Refuted: Tcp::parse_options unwraps the Err of TcpOption::from_bytes,   *)
(* and the u8 length computations panic under overflow checks.             *)

C1_NeverPanics == pc # "panic"

---------------------------------------------------------------------------
(* C2: total coverage: the as_bytes of the layers of a returned list,      *)
(* concatenated in order, are the frame.                                   *)
(* Refuted: Tcp::as_bytes drops the reserved bits of byte 12 and writes    *)
(* zeros for the bytes that follow a kind-0 option.                        *)

C2_TotalCoverage ==
    pc = "done" => Reencoded(headers, overflow_checks) = U8(frame)

---------------------------------------------------------------------------
(* C3: every returned list is non-empty; it is the single Payload of the   *)
(* whole frame when the Ethernet decode fails and starts with an ETHER     *)
(* layer otherwise; a Payload occurs only as the last element and holds    *)
(* every byte the layers before it did not consume.                        *)

C3_Shape ==
    pc = "done" =>
        /\ headers # <<>>
        /\ EthernetFromBytes(frame).status = "err" => headers = <<Payload(frame)>>
        /\ EthernetFromBytes(frame).status = "ok" => headers[1].kind = "ETHER"
        /\ \A i \in 1..Len(headers) :
              headers[i].kind = "Payload" =>
                 /\ i = Len(headers)
                 /\ headers[i].data = Drop(frame, WireLenOf(Take(headers, i - 1)))

C3_Witness ==
    /\ pc = "done"
    /\ Len(headers) >= 3
    /\ headers[1].kind = "ETHER"
    /\ Last(headers).kind = "Payload"
    /\ Last(headers).data # <<>>
    /\ Len(Last(headers).data) < Len(frame) - 14

---------------------------------------------------------------------------
(* C4: a frame shorter than 14 bytes gives exactly [Payload(frame)]; on a  *)
(* frame of 14 bytes or more the Ethernet decode succeeds and consumes     *)
(* exactly 14 bytes.                                                       *)

C4_TruncatedEthernet ==
    pc # "parse" =>
        IF Len(frame) < 14
        THEN pc = "done" /\ headers = <<Payload(frame)>>
        ELSE /\ headers[1].kind = "ETHER"
             /\ EthernetAsBytes(headers[1]) = Take(frame, 14)
             /\ Len(headers) = 1 => leftover = Drop(frame, 14)

C4_Witness ==
    /\ pc = "done"
    /\ Len(frame) = 13
    /\ headers = <<Payload(frame)>>

---------------------------------------------------------------------------
UnknownEthertype ==
    /\ Len(frame) > 14
    /\ FrameU16(13) \notin {2054, 33024, 2048}

(* C5: an Ethernet header whose ethertype is none of 0x0806, 0x8100,       *)
(* 0x0800, followed by at least one byte, gives exactly                    *)
(* [ETHER, Payload(the bytes after the header)].                           *)

C5_UnknownEthertype ==
    (UnknownEthertype /\ (pc \in {"done", "panic"} \/ Len(headers) >= 2)) =>
        /\ pc # "panic"
        /\ leftover = <<>>
        /\ Len(headers) = 2
        /\ headers[1].kind = "ETHER"
        /\ headers[1].eth_type = FrameU16(13)
        /\ headers[2] = Payload(Drop(frame, 14))

C5_Witness ==
    /\ pc = "done"
    /\ UnknownEthertype
    /\ FrameU16(13) = 39321
    /\ Kinds(headers) = <<"ETHER", "Payload">>

---------------------------------------------------------------------------
\* the tag type of the i-th tag is at bytes 14 + 4i - 1, 14 + 4i
IsQinQArp(k) ==
    /\ Len(frame) = 14 + 4 * k + 28
    /\ FrameU16(13) = 33024
    /\ \A i \in 1..(k - 1) : FrameU16(14 + 4 * i - 1) = 33024
    /\ FrameU16(14 + 4 * k - 1) = 2054

(* C6: Ethernet(0x8100), k Dot1Q tags of which the first k - 1 have tag    *)
(* type 0x8100 and the last 0x0806, then a 28-byte ARP header, decode to   *)
(* [ETHER, VLAN (k times), ARP], the tags in wire order.                   *)

C6_QinQ ==
    \A k \in 1..MaxTags :
        (IsQinQArp(k) /\ pc \in {"done", "panic"}) =>
            /\ pc = "done"
            /\ Kinds(headers) = <<"ETHER">> \o [i \in 1..k |-> "VLAN"] \o <<"ARP">>
            /\ \A i \in 1..k :
                  /\ headers[i + 1].tci = FrameU16(14 + 4 * i - 3)
                  /\ headers[i + 1].tpid = FrameU16(14 + 4 * i - 1)
            /\ ArpAsBytes(headers[k + 2]) = Drop(frame, 14 + 4 * k)

C6_Witness ==
    /\ pc = "done"
    /\ IsQinQArp(2)
    /\ Kinds(headers) = <<"ETHER", "VLAN", "VLAN", "ARP">>

---------------------------------------------------------------------------
Follows(prev, kind) ==
    CASE kind = "ARP" -> TypeOf(prev) = 2054
      [] kind = "VLAN" -> TypeOf(prev) = 33024
      [] kind = "IPv4" -> TypeOf(prev) = 2048
      [] kind = "ICMP4" -> ProtocolOf(prev) = 1
      [] kind = "TCP" -> ProtocolOf(prev) = 6
      [] kind = "UDP" -> ProtocolOf(prev) = 17
      [] kind = "Payload" -> TRUE
      [] OTHER -> FALSE

(* C7: every layer after the first is chosen by the discriminant of the    *)
(* layer before it: ARP, VLAN, IPv4 only after an ETHER or VLAN layer of   *)
(* type 0x0806, 0x8100, 0x0800; ICMP4, TCP, UDP only after an IPv4 layer   *)
(* of protocol 1, 6, 17; after anything else only a Payload.               *)

C7_DispatchTable ==
    \A i \in 2..Len(headers) : Follows(headers[i - 1], headers[i].kind)

C7_Witness ==
    /\ pc = "done"
    /\ Kinds(headers) = <<"ETHER", "VLAN", "IPv4", "UDP", "Payload">>

---------------------------------------------------------------------------
\* fewer bytes than the fixed part of the chosen codec
TooShort ==
    \/ AboutToCall("vlan") /\ Len(leftover) < 4
    \/ AboutToCall("arp") /\ Len(leftover) < 28
    \/ AboutToCall("ip4") /\ Len(leftover) < 20
    \/ AboutToCall("icmp4") /\ Len(leftover) < 4
    \/ AboutToCall("tcp") /\ Len(leftover) < 20
    \/ AboutToCall("udp") /\ Len(leftover) < 8

ChosenCodecFails ==
    /\ pc = "loop"
    /\ leftover # <<>>
    /\ \/ TooShort
       \/ Dispatch(leftover, NextCodec(Last(headers)), overflow_checks).status = "err"

(* C8: when the codec chosen for the remaining bytes fails, those bytes    *)
(* are pushed whole as one Payload, the layers pushed before stay as they  *)
(* are, and the loop stops: parse returns the list unchanged.              *)

C8_FailureRecovery ==
    [][ /\ ChosenCodecFails =>
            /\ headers' = Append(headers, Payload(leftover))
            /\ leftover' = <<>>
            /\ pc' = "loop"
        /\ (pc = "loop" /\ leftover = <<>>) =>
            /\ pc' = "done"
            /\ headers' = headers ]_vars

C8_Witness ==
    /\ pc = "done"
    /\ Len(headers) >= 3
    /\ Last(headers).kind = "Payload"
    /\ ProtocolOf(headers[Len(headers) - 1]) = 17
    /\ Len(Last(headers).data) \in 1..7

---------------------------------------------------------------------------
(* C9: IPv4::from_bytes returns an error whenever the header-length nibble *)
(* is below 5, and for a nibble n >= 5 consumes n * 4 bytes, the last      *)
(* n * 4 - 20 of them being the options.                                   *)
(* Refuted: below 5 the u8 subtraction panics under overflow checks, and   *)
(* wraps to 236..252 option bytes without them.                            *)

C9_Ipv4HeaderLength ==
    /\ ~(pc = "panic" /\ NextCodec(Last(headers)) = "ip4")
    /\ \A i \in 1..Len(headers) :
          headers[i].kind = "IPv4" =>
             /\ headers[i].version_ihl % 16 >= 5
             /\ Len(headers[i].options) = (headers[i].version_ihl % 16) * 4 - 20

---------------------------------------------------------------------------
(* C10: Tcp::from_bytes returns an error whenever the data-offset nibble   *)
(* is below 5.                                                             *)
(* Refuted: below 5 the u8 subtraction panics under overflow checks, and   *)
(* wraps to 236..252 option bytes without them.                            *)

C10_TcpDataOffset ==
    /\ ~(/\ pc = "panic"
         /\ NextCodec(Last(headers)) = "tcp"
         /\ Len(leftover) >= 20
         /\ leftover[13] \div 16 < 5)
    /\ \A i \in 1..Len(headers) :
          headers[i].kind = "TCP" => headers[i].data_offset >= 5

---------------------------------------------------------------------------
(* Reading TCP headers and their options regions                           *)

\* the bytes of the frame that layer i of the list stands for
LayerOffset(i) == WireLenOf(Take(headers, i - 1))

Consumed(i) ==
    SubSeq(frame, LayerOffset(i) + 1, LayerOffset(i) + WireLen(headers[i]))

\* the outcome of walking an options region
Held(options) == [status |-> "ok", val |-> options]

Invalid == [status |-> "invalid"]

HeldAfter(option, t) ==
    IF t.status = "invalid" THEN Invalid ELSE Held(<<option>> \o t.val)

\* The options a region holds: kinds 0 and 1 stand alone, any other kind is
\* followed by a length byte L >= 2 and L - 2 value bytes inside the region;
\* the walk ends after a kind 0 or at the end of the region.
RECURSIVE OptionsHeld(_)
OptionsHeld(region) ==
    IF region = <<>> THEN Held(<<>>)
    ELSE IF region[1] = 0
    THEN Held(<<[number |-> 0, length |-> <<>>, data |-> <<>>]>>)
    ELSE IF region[1] = 1
    THEN HeldAfter([number |-> 1, length |-> <<>>, data |-> <<>>],
                   OptionsHeld(Drop(region, 1)))
    ELSE IF Len(region) < 2 THEN Invalid
    ELSE IF region[2] < 2 \/ region[2] > Len(region) THEN Invalid
    ELSE HeldAfter([number |-> region[1], length |-> <<region[2]>>,
                    data |-> SubSeq(region, 3, region[2])],
                   OptionsHeld(Drop(region, region[2])))

OptionKinds(options) == [i \in 1..Len(options) |-> options[i].number]

\* the options region a TCP header at the start of `bytes` declares
TcpRegion(bytes) == SubSeq(bytes, 21, (bytes[13] \div 16) * 4)

\* the loop is about to decode a TCP header with data offset >= 5 whose
\* declared bytes are all there
DeclaredTcp ==
    /\ AboutToCall("tcp")
    /\ Len(leftover) >= 20
    /\ leftover[13] \div 16 >= 5
    /\ Len(leftover) >= (leftover[13] \div 16) * 4

---------------------------------------------------------------------------
(* C11: the TCP option loop stops, without failing, after a kind-0 option  *)
(* or at the end of the declared options region: a header with data offset *)
(* 5 decodes with an empty option list, a region without a kind-0 byte to  *)
(* the options it holds.                                                   *)
(* Refuted: Tcp::parse_options returns only after a kind-0 option; at the  *)
(* end of the region TcpOption::from_bytes fails and the unwrap panics.    *)

C11_OptionLoopStops ==
    (DeclaredTcp /\ OptionsHeld(TcpRegion(leftover)).status = "ok") =>
        /\ TcpFromBytes(leftover, overflow_checks).status = "ok"
        /\ TcpFromBytes(leftover, overflow_checks).val.options
              = OptionsHeld(TcpRegion(leftover)).val

---------------------------------------------------------------------------
(* C12: an option of kind other than 0 or 1 whose length byte is 0 or 1,   *)
(* or whose length runs past the declared options region, makes the TCP    *)
(* decode return an error.                                                 *)
(* Refuted: the failure of TcpOption::from_bytes (or, under overflow       *)
(* checks, the panic of length - 2) leaves Tcp::from_bytes as a panic.     *)

C12_InvalidOptionLength ==
    (DeclaredTcp /\ OptionsHeld(TcpRegion(leftover)).status = "invalid") =>
        TcpFromBytes(leftover, overflow_checks).status = "err"

---------------------------------------------------------------------------
(* C13: the option list of a decoded TCP header is the in-order sequence   *)
(* of the entries of its options region, kinds 0 and 1 without length and  *)
(* value, every other kind with a length byte L and L - 2 value bytes, cut *)
(* after the first kind-0 entry, inclusive; a well-formed region that      *)
(* holds a kind-0 entry decodes to that list.                              *)

C13_OptionList ==
    /\ \A i \in 1..Len(headers) :
          headers[i].kind = "TCP" =>
             Held(headers[i].options) = OptionsHeld(Drop(Consumed(i), 20))
    /\ (/\ DeclaredTcp
        /\ OptionsHeld(TcpRegion(leftover)).status = "ok"
        /\ 0 \in { TcpRegion(leftover)[j] : j \in 1..Len(TcpRegion(leftover)) }
        /\ OptionsHeld(TcpRegion(leftover)).val # <<>>
        /\ Last(OptionsHeld(TcpRegion(leftover)).val).number = 0) =>
          /\ TcpFromBytes(leftover, overflow_checks).status = "ok"
          /\ TcpFromBytes(leftover, overflow_checks).val.options
                = OptionsHeld(TcpRegion(leftover)).val

C13_Witness ==
    /\ pc = "done"
    /\ Len(headers) >= 3
    /\ Last(headers).kind = "TCP"
    /\ Last(headers).data_offset = 11
    /\ OptionKinds(Last(headers).options) = <<2, 1, 3, 1, 1, 8, 4, 0>>
    /\ Last(headers).options[1].data = <<5, 172>>
    /\ Len(Last(headers).options[6].data) = 8

---------------------------------------------------------------------------
\* from_bytes of the codec that produced a layer
LayerFromBytes(kind, bytes, checks) ==
    CASE kind = "ETHER" -> EthernetFromBytes(bytes)
      [] kind = "VLAN" -> Dot1QFromBytes(bytes)
      [] kind = "ARP" -> ArpFromBytes(bytes)
      [] kind = "IPv4" -> IPv4FromBytes(bytes, checks)
      [] kind = "ICMP4" -> Icmpv4FromBytes(bytes)
      [] kind = "UDP" -> UdpFromBytes(bytes)
      [] OTHER -> NomErr

\* a layer of one of the fixed-layout and verbatim-copy codecs
IsPlainLayer(layer) ==
    \/ layer.kind \in {"ETHER", "VLAN", "ARP", "UDP", "ICMP4"}
    \/ layer.kind = "IPv4" /\ layer.version_ihl % 16 >= 5

(* C14: for Ethernet, Dot1Q, ARP, UDP, ICMPv4 and IPv4 (header-length      *)
(* nibble >= 5), as_bytes of a decoded value is exactly the bytes that     *)
(* from_bytes consumed, and decoding those bytes again gives the value     *)
(* back; for ARP whatever the declared address lengths are, the header     *)
(* always being 28 bytes.                                                  *)

C14_PlainRoundTrip ==
    \A i \in 1..Len(headers) :
        IsPlainLayer(headers[i]) =>
           /\ LayerAsBytes(headers[i], overflow_checks) = U8(Consumed(i))
           /\ LayerFromBytes(headers[i].kind, Consumed(i), overflow_checks)
                 = NomOk(<<>>, headers[i])
           /\ headers[i].kind = "ARP" => Len(Consumed(i)) = 28

C14_Witness ==
    /\ pc = "done"
    /\ Kinds(headers) = <<"ETHER", "VLAN", "ARP", "Payload">>
    /\ headers[3].hardware_length = 8
    /\ headers[3].protocol_length = 16
    /\ ArpAsBytes(headers[3]) = ArpOddLengths

---------------------------------------------------------------------------
(* C15: as_bytes of a decoded TCP header (data offset >= 5) is exactly the *)
(* data offset * 4 bytes that from_bytes consumed, the reserved bits of    *)
(* byte 12 and the bytes after a kind-0 option included.                   *)
(* Refuted: Tcp::as_bytes writes data_offset << 4 | ns, without the        *)
(* reserved bits, and zeros for every byte after the kind-0 option.        *)

C15_TcpRoundTrip ==
    \A i \in 1..Len(headers) :
        (headers[i].kind = "TCP" /\ headers[i].data_offset >= 5) =>
            TcpAsBytes(headers[i], overflow_checks) = U8(Consumed(i))

---------------------------------------------------------------------------
\* after these headers only a Payload is pushed
IsTerminal(layer) == layer.kind \in {"ARP", "UDP", "TCP"}

(* C20: once an ARP, UDP or TCP header is decoded, the bytes that remain   *)
(* are pushed as one Payload, the last layer; when none remains the list   *)
(* ends with the header and no Payload is added.                           *)

C20_TrailingBytes ==
    /\ \A i \in 1..Len(headers) :
          (IsTerminal(headers[i]) /\ i < Len(headers)) =>
             /\ Len(headers) = i + 1
             /\ leftover = <<>>
             /\ headers[i + 1] = Payload(Drop(frame, LayerOffset(i + 1)))
             /\ headers[i + 1].data # <<>>
    /\ (pc = "done" /\ IsTerminal(Last(headers))) =>
          WireLenOf(headers) = Len(frame)
    /\ (pc = "loop" /\ IsTerminal(Last(headers))) =>
          leftover = Drop(frame, WireLenOf(headers))

C20_Witness ==
    /\ pc = "done"
    /\ Kinds(headers) = <<"ETHER", "VLAN", "VLAN", "ARP", "Payload">>
    /\ headers[5].data = Zeros(14)

---------------------------------------------------------------------------
(* Reading a decoded GRE header and reference checksums                    *)

\* the bytes of the frame that the first from_bytes consumed
Header == Take(frame, Len(frame) - Len(leftover))

\* a GRE header with one of the 8 flag combinations, zero reserved bits and
\* a zero reserved word
PlainGre ==
    /\ frame[1] \in GreFlagSubsets
    /\ frame[2] = 0
    /\ frame[1] >= 128 => SubSeq(frame, 7, 8) = <<0, 0>>

\* the big-endian 16-bit words of a slice, a trailing odd byte left out
WordsOf(bytes) ==
    [i \in 1..(Len(bytes) \div 2) |-> bytes[2 * i - 1] * 256 + bytes[2 * i]]

\* one's-complement addition of 16-bit words: the carry is added back in
EndAround(a, b) ==
    IF a + b > 65535 THEN a + b - 65535 ELSE a + b

RECURSIVE OnesSum(_)
OnesSum(words) ==
    IF words = <<>> THEN 0
    ELSE EndAround(OnesSum(Take(words, Len(words) - 1)), words[Len(words)])

\* the Internet checksum of a slice
InternetChecksum(bytes) == 65535 - OnesSum(WordsOf(bytes))

\* an IPv4 header with the checksum field zeroed
ZeroedChecksum(header) ==
    [i \in 1..Len(header) |-> IF i \in {11, 12} THEN 0 ELSE header[i]]

---------------------------------------------------------------------------
(* C16: for each of the 8 subsets of {checksum, key, sequence}, a GRE      *)
(* header with those flag bits, zero reserved bits and a zero reserved     *)
(* word decodes to a value whose as_bytes is the header, byte for byte.    *)
(* Refuted: from_bytes sets has_key and has_sequence from flags >> 5 and   *)
(* flags >> 4, so a header with the checksum or key bit alone comes back   *)
(* with the lower flags set and zero-filled fields added.                  *)

C16_GreRoundTrip ==
    (pc = "encoded" /\ PlainGre) => out = U8(Header)

---------------------------------------------------------------------------
(* C17: for every flags byte Gre::from_bytes sets has_csum iff bit 7 is    *)
(* set, has_key iff bit 5 is set and has_sequence iff bit 4 is set, each   *)
(* independently of the other bits.                                        *)
(* Refuted: has_key is (flags >> 5) != 0 and has_sequence is               *)
(* (flags >> 4) != 0, true whenever a higher bit is set.                   *)

C17_GreFlags ==
    (pc = "decoded" /\ headers[1].kind = "GRE") =>
        /\ headers[1].has_csum = (Bit(frame[1], 7) = 1)
        /\ headers[1].has_key = (Bit(frame[1], 5) = 1)
        /\ headers[1].has_sequence = (Bit(frame[1], 4) = 1)

---------------------------------------------------------------------------
(* C18: for every IPv4 header (nibble >= 5, with or without options) whose *)
(* stored checksum is the Internet checksum of its header bytes,           *)
(* calculate_ip_checksum of the decoded value is the stored checksum; the  *)
(* value computed does not depend on the stored checksum.                  *)
(* Refuted: the option bytes are not among the words summed.               *)

C18_Ipv4Checksum ==
    (pc = "summed" /\ headers[1].kind = "IPv4"
        /\ headers[1].version_ihl % 16 >= 5) =>
        /\ headers[1].checksum = InternetChecksum(ZeroedChecksum(Header))
              => out = U8(headers[1].checksum)
        /\ out = U8(calculate_ip_checksum([headers[1] EXCEPT !.checksum = 0]))

---------------------------------------------------------------------------
(* C19: calculate_icmp_checksum is the one's-complement checksum, with     *)
(* full end-around carry, of the code/type word followed by the payload    *)
(* read as big-endian 16-bit words, a trailing odd byte left out.          *)
(* Refuted: the sum is folded once and the carry of that fold is masked    *)
(* away; the payload words are built with from_ne_bytes, byte-swapped on a *)
(* big-endian target.                                                      *)

C19_Icmpv4Checksum ==
    (pc = "summed" /\ headers[1].kind = "ICMP4") =>
        out = U8(InternetChecksum(<<headers[1].icmp_code, headers[1].icmp_type>>
                                  \o headers[1].payload))

---------------------------------------------------------------------------
\* the slice still to be dispatched is the end of the frame
IsSuffix == leftover = Drop(frame, Len(frame) - Len(leftover))

\* the passes of the while loop made so far: each pushes one layer
Iterations == Len(headers) - 1

\* at the head of the loop either the slice is empty and parse returns, or
\* the last layer selects one arm of parse_next
CanStep ==
    pc = "loop" =>
        /\ headers # <<>>
        /\ NextCodec(Last(headers))
              \in {"arp", "vlan", "ip4", "icmp4", "tcp", "udp", "other"}

\* the slice is a suffix, the passes are within the bound, and until parse
\* has ended a step can be taken
Bounded ==
    /\ IsSuffix
    /\ Len(frame) >= 14 => Iterations <= 1 + ((Len(frame) - 14 + 3) \div 4)
    /\ pc \in {"parse", "loop", "done", "panic"}
    /\ CanStep

(* C21: every pass of the dispatch loop either shortens the remaining      *)
(* slice by at least 4 bytes or empties it, and the slice is always a      *)
(* suffix of the frame; so Packet::parse ends for every frame, after at    *)
(* most 1 + ceil((len - 14) / 4) passes: until it has ended a step can     *)
(* always be taken, and the passes are bounded.                            *)

C21_Termination ==
    [][/\ Bounded /\ Bounded'
       /\ (pc = "loop" /\ leftover # <<>> /\ pc' = "loop") =>
             /\ Len(headers') = Len(headers) + 1
             /\ \/ leftover' = <<>>
                \/ Len(leftover') <= Len(leftover) - 4]_vars

C21_Witness ==
    /\ pc = "done"
    /\ Kinds(headers) = <<"ETHER", "VLAN", "IPv4", "TCP", "Payload">>
    /\ Iterations = 4
    /\ Len(headers[5].data) = 2

---------------------------------------------------------------------------
\* the length of a GRE header with this flags byte
GreLen(flags) == 4 + 4 * Bit(flags, 7) + 4 * Bit(flags, 5) + 4 * Bit(flags, 4)

\* 1 for TRUE, 0 for FALSE
Num(b) == IF b THEN 1 ELSE 0

\* v was read from the header h in the order checksum + reserved, key,
\* sequence, a field without its bit being 0
ReadInOrder(v, h) ==
    /\ v.checksum = IF Bit(h[1], 7) = 1 THEN BeUint(SubSeq(h, 5, 6)) ELSE 0
    /\ v.key = IF Bit(h[1], 5) = 1
               THEN BeU32(SubSeq(h, 5 + 4 * Bit(h[1], 7), 8 + 4 * Bit(h[1], 7)))
               ELSE <<0, 0>>
    /\ v.sequence = IF Bit(h[1], 4) = 1
                    THEN BeU32(SubSeq(h, GreLen(h[1]) - 3, GreLen(h[1])))
                    ELSE <<0, 0>>

\* o holds the fields of v in the same order, the reserved word zero, an
\* absent field left out
WrittenInOrder(v, o) ==
    /\ Len(o) = 4 + 4 * Num(v.has_csum) + 4 * Num(v.has_key)
                  + 4 * Num(v.has_sequence)
    /\ v.has_csum => SubSeq(o, 5, 8) = WriteU16(v.checksum) \o <<0, 0>>
    /\ v.has_key =>
          SubSeq(o, 5 + 4 * Num(v.has_csum), 8 + 4 * Num(v.has_csum))
             = WriteU32(v.key)
    /\ v.has_sequence => SubSeq(o, Len(o) - 3, Len(o)) = WriteU32(v.sequence)

(* C22: Gre::from_bytes reads checksum + reserved, key, sequence in that   *)
(* order, consumes exactly 4 + 4*[bit 7] + 4*[bit 5] + 4*[bit 4] bytes and *)
(* fails if fewer are there; Gre::as_bytes writes 4 + 4*has_csum +         *)
(* 4*has_key + 4*has_sequence bytes in the same order, the reserved word   *)
(* as zero, absent fields left out.                                        *)

C22_GreFieldOrder ==
    [][/\ pc = "gre" =>
            /\ pc' \in {"decoded", "failed"}
            /\ pc' = "failed" <=>
                  (Len(frame) < 4 \/ Len(frame) < GreLen(frame[1]))
            /\ pc' = "decoded" =>
                  /\ leftover' = Drop(frame, GreLen(frame[1]))
                  /\ ReadInOrder(headers'[1], frame)
       /\ (pc = "decoded" /\ headers[1].kind = "GRE") =>
            /\ pc' = "encoded"
            /\ WrittenInOrder(headers[1], out'.val)]_vars

C22_Witness ==
    /\ pc = "encoded"
    /\ frame = GreCaptured(176, <<0, 7>>)
    /\ headers[1].key = <<0, 12345>>
    /\ out = U8(<<176, 0, 8, 0, 0, 128, 0, 0, 0, 0, 48, 57, 0, 0, 0, 1>>)

---------------------------------------------------------------------------
(* C23: an ICMP4 layer is always the last layer of a returned list: with   *)
(* 4 bytes or more after an IPv4 header of protocol 1 the ICMPv4 decode    *)
(* succeeds and takes the whole remainder as its payload, so nothing       *)
(* follows it; with fewer than 4 bytes the remainder becomes a Payload.    *)

C23_Icmp4Last ==
    [][/\ AboutToCall("icmp4") =>
            /\ pc' = "loop"
            /\ leftover' = <<>>
            /\ headers' =
                  Append(headers,
                         IF Len(leftover) >= 4
                         THEN [kind |-> "ICMP4",
                               icmp_code |-> leftover[1],
                               icmp_type |-> leftover[2],
                               checksum |-> leftover[3] * 256 + leftover[4],
                               payload |-> Drop(leftover, 4)]
                         ELSE Payload(leftover))
       /\ (headers # <<>> /\ Last(headers).kind = "ICMP4") =>
            /\ pc' = "done"
            /\ headers' = headers]_vars

C23_Witness ==
    /\ pc = "done"
    /\ Kinds(headers) = <<"ETHER", "VLAN", "VLAN", "IPv4", "ICMP4">>
    /\ Len(headers[4].options) = 4
    /\ headers[5].payload = <<5, 65, 0, 222, 173>>

---------------------------------------------------------------------------
\* the layers of a list that are not a Payload
RECURSIVE HeaderLayers(_)
HeaderLayers(pkt) ==
    IF pkt = <<>> THEN <<>>
    ELSE (IF pkt[1].kind = "Payload" THEN <<>> ELSE <<pkt[1]>>)
         \o HeaderLayers(Drop(pkt, 1))

(* C24: a Payload layer is never empty, except that the empty frame gives  *)
(* [Payload([])]: a Payload after the first layer holds at least one byte, *)
(* and a frame that its headers consume exactly ends without a Payload.    *)

C24_PayloadNotEmpty ==
    /\ \A i \in 1..Len(headers) :
          (headers[i].kind = "Payload" /\ headers[i].data = <<>>) =>
             /\ frame = <<>>
             /\ i = 1
    /\ (pc = "done" /\ frame = <<>>) => headers = <<Payload(<<>>)>>
    /\ (pc = "done" /\ frame # <<>>
          /\ WireLenOf(HeaderLayers(headers)) = Len(frame)) =>
          Last(headers).kind # "Payload"

C24_Witness ==
    /\ pc = "done"
    /\ frame = <<>>
    /\ headers = <<Payload(<<>>)>>

---------------------------------------------------------------------------
(* C25: for every Tcp value of a successful Tcp::from_bytes the encoded    *)
(* options take at most (data_offset - 5) * 4 bytes, so the padding length *)
(* of Tcp::as_bytes does not underflow and as_bytes returns exactly        *)
(* data_offset * 4 bytes.                                                  *)
(* Refuted: without overflow checks from_bytes succeeds with a data offset *)
(* below 5 (the options length wraps to 236..252); (data_offset - 5) * 4   *)
(* then wraps in as_bytes too, which returns 256..272 bytes.               *)

C25_TcpPadding ==
    \A i \in 1..Len(headers) :
        headers[i].kind = "TCP" =>
           /\ Len(OptionsAsBytes(headers[i].options))
                 <= (headers[i].data_offset - 5) * 4
           /\ TcpAsBytes(headers[i], overflow_checks).status = "ok"
           /\ Len(TcpAsBytes(headers[i], overflow_checks).val)
                 = headers[i].data_offset * 4

=============================================================================
